---- MODULE Spec2Model ----
(***************************************************************************)
(* Array-backed Merkle tree (src/merkle_tree/merkle_tree.rs) and its index *)
(* arithmetic (src/utils/index.rs).                                        *)
(*                                                                         *)
(* Strings are kept as the characters the caller wrote; a SHA3-256 digest  *)
(* is kept as the byte string it was computed from (the hash is opaque and *)
(* collision free), and the 64 hexadecimal characters hex::encode prints   *)
(* for a digest are kept as one block.                                     *)
(***************************************************************************)
EXTENDS Integers, Sequences, FiniteSets, TLC

\* ------------------------------------------------------------------ bounds
\* largest one-indexed depth for which a tree is built in the model
MaxDepth == 3
\* number of set calls explored on one tree
MaxSets == 2
\* largest depth coordinate given to the index functions
MaxIdxDepth == 4

\* ------------------------------------------------------- program constants
\* new rejects depth > 30
DepthLimit == 30
\* length of the hexadecimal text of a leaf, after the two-character prefix
HexLen == 64
\* width of a SHA3-256 digest / of [u8; 32]
HashBytes == 32
\* number of characters skipped by &s[2..]
PrefixLen == 2

\* ------------------------------------------------------------------ strings
\* A String: the characters `lit`, followed, when `dig` holds, by the
\* lowercase hexadecimal text of the digest of the bytes `pre`.
Str(chars) == [lit |-> chars, dig |-> FALSE, pre |-> <<>>]

\* a byte string: a sequence of chunks, each literal bytes or one digest
LitBytes(bs) == IF bs = <<>> THEN <<>> ELSE << [dig |-> FALSE, lit |-> bs, pre |-> <<>>] >>

StrLen(s) == Len(s.lit) + (IF s.dig THEN 2 * HashBytes ELSE 0)

BytesLen(b) ==
    LET RECURSIVE Sum(_)
        Sum(i) == IF i = 0 THEN 0
                  ELSE Sum(i - 1) + (IF b[i].dig THEN HashBytes ELSE Len(b[i].lit))
    IN Sum(Len(b))

\* Vec::extend: the bytes of a followed by the bytes of b
Concat(a, b) ==
    IF a = <<>> THEN b
    ELSE IF b = <<>> THEN a
    ELSE IF ~a[Len(a)].dig /\ ~b[1].dig
         THEN SubSeq(a, 1, Len(a) - 1)
              \o LitBytes(a[Len(a)].lit \o b[1].lit)
              \o SubSeq(b, 2, Len(b))
         ELSE a \o b

\* hasher.update(bytes); hasher.finalize_reset(): the 32-byte digest of bytes
Sha3(bytes) == << [dig |-> TRUE, lit |-> <<>>, pre |-> bytes] >>

HexDigits == {"0", "1", "2", "3", "4", "5", "6", "7", "8", "9",
              "a", "b", "c", "d", "e", "f", "A", "B", "C", "D", "E", "F"}

Nibble(c) ==
    CASE c = "0" -> 0 [] c = "1" -> 1 [] c = "2" -> 2 [] c = "3" -> 3
      [] c = "4" -> 4 [] c = "5" -> 5 [] c = "6" -> 6 [] c = "7" -> 7
      [] c = "8" -> 8 [] c = "9" -> 9
      [] c \in {"a", "A"} -> 10 [] c \in {"b", "B"} -> 11
      [] c \in {"c", "C"} -> 12 [] c \in {"d", "D"} -> 13
      [] c \in {"e", "E"} -> 14 [] c \in {"f", "F"} -> 15

\* &s[2..]: panics when the string is shorter than two characters
CanSlice(s) == StrLen(s) >= PrefixLen

\* (every string that ends in a digest block was printed by format!("0x{}"),
\* so the two characters dropped are always literal ones)
Slice(s) == [s EXCEPT !.lit = SubSeq(s.lit, PrefixLen + 1, Len(s.lit))]

\* hex::decode: OddLength, then InvalidHexCharacter, else one byte per pair
HexDecode(s) ==
    IF StrLen(s) % 2 # 0
    THEN [ok |-> FALSE, err |-> "OddLength", bytes |-> <<>>]
    ELSE IF \E i \in 1..Len(s.lit) : s.lit[i] \notin HexDigits
    THEN [ok |-> FALSE, err |-> "InvalidHexCharacter", bytes |-> <<>>]
    ELSE [ok |-> TRUE, err |-> "",
          bytes |-> Concat(
              LitBytes([i \in 1..(Len(s.lit) \div 2) |->
                           16 * Nibble(s.lit[2 * i - 1]) + Nibble(s.lit[2 * i])]),
              IF s.dig THEN Sha3(s.pre) ELSE <<>>)]

\* format!("0x{}", hex::encode(hash)) for a 32-byte digest
FormatHash(hash) == [lit |-> <<"0", "x">>, dig |-> TRUE, pre |-> hash[1].pre]

\* ------------------------------------------------------------------- index
\* 1 << n
Pow2(n) == 2 ^ n

None == [some |-> FALSE, v |-> 0]
Some(x) == [some |-> TRUE, v |-> x]

parent_index(index) == IF index = 0 THEN None ELSE Some((index - 1) \div 2)

left_child_index(index) == (index * 2) + 1

\* depth_offset_to_index with the bound moved to offset >= base
depth_offset_to_index_strict(depth, offset) ==
    LET base == Pow2(depth) - 1
    IN IF offset >= base
       THEN [ok |-> FALSE, v |-> 0]
       ELSE [ok |-> TRUE, v |-> base + offset]

depth_offset_to_index(depth, offset) ==
    LET base == Pow2(depth) - 1
    IN IF offset > base
       THEN [ok |-> FALSE, v |-> 0]
       ELSE [ok |-> TRUE, v |-> base + offset]

index_to_depth_offset(index) ==
    LET RECURSIVE Loop(_, _)
        Loop(depth, nodes_at_current_depth) ==
            IF index >= nodes_at_current_depth
            THEN Loop(depth + 1, nodes_at_current_depth + Pow2(depth + 1))
            ELSE depth
        depth == Loop(0, 1)
        base == IF depth = 0 THEN 0 ELSE Pow2(depth) - 1
    IN <<depth, index - base>>

\* -------------------------------------------------------------------- tree
\* the tree is `nodes`, a function on 0 .. nodes.len() - 1
NodesLen(nodes) == Cardinality(DOMAIN nodes)

NoTree == [i \in {} |-> Str(<<>>)]

root(nodes) == nodes[0]

\* num_leaves without the + 1
num_leaves_half(nodes) == NodesLen(nodes) \div 2

num_leaves(nodes) == NodesLen(nodes) \div 2 + 1

is_left_child(index) == index % 2 = 1

Result(res, nodes) == [res |-> res, nodes |-> nodes]

\* the "build up" loop of new: for d in (0..depth).rev()
RECURSIVE BuildUp(_, _, _)
BuildUp(nodes, d, current_hash) ==
    IF d < 0 THEN nodes
    ELSE LET hash == Sha3(Concat(current_hash, current_hash))
             current_hash_string == FormatHash(hash)
             start_idx == Pow2(d) - 1
             end_idx == Pow2(d + 1) - 1
         IN BuildUp([i \in DOMAIN nodes |->
                        IF start_idx <= i /\ i < end_idx
                        THEN current_hash_string ELSE nodes[i]],
                    d - 1, hash)

\* MerkleTree::new.  `build` is the build profile: with overflow checks
\* ("debug") depth - 1 panics at depth 0; without them ("release") it wraps to
\* usize::MAX, 1 << depth is 1 << 63, 2 * leaf_count wraps to 0, total_nodes
\* wraps to usize::MAX and vec! panics with a capacity overflow.
new(depth, initial_leaf, build) ==
    IF depth > DepthLimit THEN Result("MaxDepthExceeded", NoTree)
    ELSE IF depth = 0 /\ build = "debug" THEN Result("Panic", NoTree)
    ELSE IF ~CanSlice(initial_leaf) THEN Result("Panic", NoTree)
    ELSE LET string_to_decode == Slice(initial_leaf) IN
    IF StrLen(string_to_decode) # HexLen THEN Result("InvalidBytes", NoTree)
    ELSE IF depth = 0 THEN Result("Panic", NoTree)
    ELSE LET d0 == depth - 1
             leaf_count == Pow2(d0)
             total_nodes == 2 * leaf_count - 1
             decoded == HexDecode(string_to_decode)
             leaves == [i \in 0..(total_nodes - 1) |->
                           IF i >= total_nodes - leaf_count
                           THEN initial_leaf ELSE Str(<<>>)]
         IN IF ~decoded.ok THEN Result("EncodeError", NoTree)
            ELSE IF BytesLen(decoded.bytes) # HashBytes
            THEN Result("InvalidBytes", NoTree)
            ELSE Result("Ok", BuildUp(leaves, d0 - 1, decoded.bytes))

\* array_index without the offset of the leaf level
array_index_no_offset(nodes, leaf_index) == leaf_index

\* the slot set writes
array_index(nodes, leaf_index) ==
    NodesLen(nodes) - num_leaves(nodes) + leaf_index

\* the recomputation loop of set: while let Some(index) = curr_index
RECURSIVE Recompute(_, _)
Recompute(nodes, curr_index) ==
    IF ~curr_index.some THEN Result("Ok", nodes)
    ELSE LET index == curr_index.v
             left == nodes[left_child_index(index)]
             right == nodes[left_child_index(index) + 1]
             left_child_hash == HexDecode(Slice(left))
             right_child_hash == HexDecode(Slice(right))
         IN IF ~CanSlice(left) THEN Result("Panic", nodes)
            ELSE IF ~left_child_hash.ok THEN Result("EncodeError", nodes)
            ELSE IF ~CanSlice(right) THEN Result("Panic", nodes)
            ELSE IF ~right_child_hash.ok THEN Result("EncodeError", nodes)
            ELSE LET concatenated_hash ==
                         Concat(left_child_hash.bytes, right_child_hash.bytes)
                 IN Recompute(
                        [nodes EXCEPT ![index] = FormatHash(Sha3(concatenated_hash))],
                        parent_index(index))

\* MerkleTree::set
set(nodes, leaf_index, value) ==
    IF leaf_index >= num_leaves(nodes) THEN Result("InvalidIndex", nodes)
    ELSE LET ai == array_index(nodes, leaf_index)
         IN Recompute([nodes EXCEPT ![ai] = value], parent_index(ai))

\* sibling_index taking every node for a left child
sibling_index_next(index) == index + 1

\* the sibling of a node on the proof path
sibling_index(index) == IF is_left_child(index) THEN index + 1 ELSE index - 1

direction(index) == IF is_left_child(index) THEN "Left" ELSE "Right"

\* the loop of proof: while let Some(parent_index) = parent_index(index).
\* nodes[sibling_index] is bounds checked: it panics outside the vector.
RECURSIVE ProofLoop(_, _, _)
ProofLoop(nodes, index, proof_steps) ==
    IF ~parent_index(index).some THEN [res |-> "Ok", steps |-> proof_steps]
    ELSE IF sibling_index(index) \notin DOMAIN nodes
    THEN [res |-> "Panic", steps |-> <<>>]
    ELSE ProofLoop(nodes, parent_index(index).v,
                   Append(proof_steps,
                          [direction |-> direction(index),
                           sibling |-> nodes[sibling_index(index)]]))

\* MerkleTree::proof
proof(nodes, leaf_index) ==
    ProofLoop(nodes, leaf_index + NodesLen(nodes) - num_leaves(nodes), <<>>)

\* concatenated ignoring the direction of the step
concatenated_current_first(dir, sibling_hash, current_hash) ==
    Concat(current_hash, sibling_hash)

\* the bytes verify hashes at one step
concatenated(dir, sibling_hash, current_hash) ==
    IF dir = "Right" THEN Concat(sibling_hash, current_hash)
    ELSE Concat(current_hash, sibling_hash)

\* MerkleTree::verify
RECURSIVE VerifyLoop(_, _, _)
VerifyLoop(steps, k, current_value) ==
    IF k > Len(steps) THEN [res |-> "Ok", value |-> current_value]
    ELSE LET step == steps[k]
             sibling_hash == HexDecode(Slice(step.sibling))
             current_hash == HexDecode(Slice(current_value))
         IN
         IF ~CanSlice(step.sibling) THEN [res |-> "Panic", value |-> Str(<<>>)]
         ELSE IF ~sibling_hash.ok THEN [res |-> "EncodeError", value |-> Str(<<>>)]
         ELSE IF ~CanSlice(current_value) THEN [res |-> "Panic", value |-> Str(<<>>)]
         ELSE IF ~current_hash.ok THEN [res |-> "EncodeError", value |-> Str(<<>>)]
         ELSE VerifyLoop(steps, k + 1,
                  FormatHash(Sha3(concatenated(step.direction, sibling_hash.bytes,
                                               current_hash.bytes))))

verify(steps, leaf_value) == VerifyLoop(steps, 1, leaf_value)

\* ------------------------------------------------------------------ inputs
Hex(c1, c2, c3, c4) ==
    [i \in 1..HexLen |-> IF i = HexLen - 1 THEN c3
                         ELSE IF i = HexLen THEN c4
                         ELSE IF i % 2 = 1 THEN c1 ELSE c2]

\* 0xabab...abab and 0xabab...abcd, the leaves of the tests
LeafAB == Str(<<"0", "x">> \o Hex("a", "b", "a", "b"))
LeafCD == Str(<<"0", "x">> \o Hex("a", "b", "c", "d"))
\* 64 characters after the prefix, two of them no hexadecimal digits
LeafBadHex == Str(<<"0", "x">> \o Hex("a", "b", "g", "g"))
\* well-formed hexadecimal of one byte
LeafShort == Str(<<"0", "x", "a", "b">>)
\* shorter than the prefix
LeafEmpty == Str(<<>>)

\* initial leaves given to new, and values given to set
InitialLeaves == {LeafAB, LeafBadHex, LeafShort, LeafEmpty}
SetValues == {LeafCD, LeafBadHex, LeafShort, LeafEmpty}

Depths == 0..MaxDepth \cup {DepthLimit + 1}

Builds == {"debug", "release"}

\* leaf values handed to verify, besides the leaf the proof was made for
VerifyValues == {LeafCD, LeafBadHex}

\* ------------------------------------------------------------------- state
VARIABLES
    nodes,      \* MerkleTree.nodes of the one tree, NoTree before construction
    phase,      \* "none": no tree yet, "live": a tree exists, "panicked"
    depthOf,    \* the depth the tree was constructed with
    op,         \* the last call, its arguments and what it returned
    setsOk,     \* every set call so far returned Ok
    nsets,      \* number of set calls so far
    ix          \* the last index-arithmetic call and what it returned

vars == <<nodes, phase, depthOf, op, setsOk, nsets, ix>>

NoOp == [name |-> "none", depth |-> 0, index |-> 0, value |-> Str(<<>>),
         res |-> "", steps |-> <<>>, out |-> Str(<<>>)]

NoIx == [name |-> "none", depth |-> 0, offset |-> 0, index |-> 0, ok |-> TRUE]

Init ==
    /\ nodes = NoTree
    /\ phase = "none"
    /\ depthOf = 0
    /\ op = NoOp
    /\ setsOk = TRUE
    /\ nsets = 0
    /\ ix = NoIx

AfterCall(res) == IF res = "Panic" THEN "panicked" ELSE "live"

New(depth, initial_leaf, build) ==
    /\ phase = "none"
    /\ LET r == new(depth, initial_leaf, build) IN
       /\ nodes' = r.nodes
       /\ phase' = IF r.res = "Ok" THEN "live"
                   ELSE IF r.res = "Panic" THEN "panicked" ELSE "none"
       /\ depthOf' = IF r.res = "Ok" THEN depth ELSE 0
       /\ op' = [NoOp EXCEPT !.name = "new", !.depth = depth,
                             !.value = initial_leaf, !.res = r.res]
    /\ UNCHANGED <<setsOk, nsets, ix>>

Set(leaf_index, value) ==
    /\ phase = "live"
    /\ nsets < MaxSets
    /\ LET r == set(nodes, leaf_index, value) IN
       /\ nodes' = r.nodes
       /\ phase' = AfterCall(r.res)
       /\ setsOk' = (setsOk /\ r.res = "Ok")
       /\ op' = [NoOp EXCEPT !.name = "set", !.index = leaf_index,
                             !.value = value, !.res = r.res]
    /\ nsets' = nsets + 1
    /\ UNCHANGED <<depthOf, ix>>

Proof(leaf_index) ==
    /\ phase = "live"
    /\ LET r == proof(nodes, leaf_index) IN
       /\ phase' = AfterCall(r.res)
       /\ op' = [NoOp EXCEPT !.name = "proof", !.index = leaf_index,
                             !.res = r.res, !.steps = r.steps]
    /\ UNCHANGED <<nodes, depthOf, setsOk, nsets, ix>>

\* verify is static: it is given the proof the last call returned
Verify(leaf_value) ==
    /\ phase = "live"
    /\ op.name = "proof"
    /\ op.res = "Ok"
    /\ LET r == verify(op.steps, leaf_value) IN
       /\ phase' = AfterCall(r.res)
       /\ op' = [op EXCEPT !.name = "verify", !.value = leaf_value,
                           !.res = r.res, !.out = r.value]
    /\ UNCHANGED <<nodes, depthOf, setsOk, nsets, ix>>

\* the leaf values verify is called with: the proved leaf's and wrong ones
VerifyInputs ==
    IF phase = "live" /\ op.name = "proof" /\ op.res = "Ok"
    THEN VerifyValues \cup {nodes[array_index(nodes, op.index)]}
    ELSE {}

Next ==
    \/ \E depth \in Depths, leaf \in InitialLeaves, build \in Builds : New(depth, leaf, build)
    \/ \E i \in 0..num_leaves(nodes), v \in SetValues : Set(i, v)
    \/ \E i \in 0..num_leaves(nodes) : Proof(i)
    \/ \E v \in VerifyInputs : Verify(v)

Spec == Init /\ [][Next]_vars

\* -------------------------------------------------- index arithmetic alone
DepthOffsetToIndex(depth, offset) ==
    /\ LET r == depth_offset_to_index(depth, offset) IN
       ix' = [name |-> "d2i", depth |-> depth, offset |-> offset,
              index |-> r.v, ok |-> r.ok]
    /\ UNCHANGED <<nodes, phase, depthOf, op, setsOk, nsets>>

IndexToDepthOffset(index) ==
    /\ LET r == index_to_depth_offset(index) IN
       ix' = [name |-> "i2d", depth |-> r[1], offset |-> r[2],
              index |-> index, ok |-> TRUE]
    /\ UNCHANGED <<nodes, phase, depthOf, op, setsOk, nsets>>

NextIndex ==
    \/ \E depth \in 0..MaxIdxDepth, offset \in 0..(Pow2(MaxIdxDepth) + 1) :
           DepthOffsetToIndex(depth, offset)
    \/ \E index \in 0..(Pow2(MaxIdxDepth + 1) - 1) : IndexToDepthOffset(index)

SpecIndex == Init /\ [][NextIndex]_vars

\* ------------------------------------------------------------------ claims
\* a string whose text after the two-character prefix decodes to 32 bytes
Decodes32(s) ==
    /\ CanSlice(s)
    /\ HexDecode(Slice(s)).ok
    /\ BytesLen(HexDecode(Slice(s)).bytes) = HashBytes

\* p is the printed hash of the bytes of l followed by the bytes of r
IsHashOf(p, l, r) ==
    /\ CanSlice(l) /\ HexDecode(Slice(l)).ok
    /\ CanSlice(r) /\ HexDecode(Slice(r)).ok
    /\ p = FormatHash(Sha3(Concat(HexDecode(Slice(l)).bytes,
                                  HexDecode(Slice(r)).bytes)))

HashConsistent(n) ==
    \A i \in DOMAIN n :
        (2 * i + 2) \in DOMAIN n => IsHashOf(n[i], n[2 * i + 1], n[2 * i + 2])

\* number of leaves of a tree of one-indexed depth d
LeavesOf(d) == 2 ^ (d - 1)

\* C1: after new, and after every successful set whatever the earlier calls
\* returned, every non-leaf node is the hash of its left child followed by
\* its right child.
C1_HashConsistency ==
    (phase = "live" /\ op.name \in {"new", "set"} /\ op.res = "Ok")
        => HashConsistent(nodes)

\* C2: on a tree changed by successful set calls only, proof succeeds for
\* every leaf and verify of that proof with the leaf's current value returns
\* Ok with the root.
C2_RoundTrip ==
    /\ (op.name = "proof" /\ setsOk /\ op.index < LeavesOf(depthOf))
           => op.res = "Ok"
    /\ (op.name = "verify" /\ setsOk
            /\ op.value = nodes[LeavesOf(depthOf) - 1 + op.index])
           => (op.res = "Ok" /\ op.out = root(nodes))

C2_Witness ==
    /\ op.name = "verify" /\ setsOk /\ nsets >= 2 /\ depthOf >= 3
    /\ op.value = nodes[LeavesOf(depthOf) - 1 + op.index]
    /\ op.res = "Ok" /\ op.out = root(nodes)
    /\ \E k \in 1..Len(op.steps) : op.steps[k].direction = "Right"

\* C3: set with a valid index and a value that does not decode to 32 bytes
\* returns InvalidBytes or EncodeError and changes no node.
C3_SetValidatesValue ==
    [][(op'.name = "set" /\ op'.index < num_leaves(nodes) /\ ~Decodes32(op'.value))
           => (op'.res \in {"InvalidBytes", "EncodeError"} /\ nodes' = nodes)]_vars

\* C4: set returns InvalidIndex exactly when leaf_index >= num_leaves(), and
\* then changes no node; otherwise it writes the value to the slot
\* nodes.len() - num_leaves() + leaf_index.
C4_SetIndexCheck ==
    [][op'.name = "set" =>
          /\ (op'.res = "InvalidIndex") <=> (op'.index >= num_leaves(nodes))
          /\ op'.index >= num_leaves(nodes) => nodes' = nodes
          /\ op'.index < num_leaves(nodes) =>
                 /\ DOMAIN nodes' = DOMAIN nodes
                 /\ nodes'[NodesLen(nodes) - num_leaves(nodes) + op'.index]
                        = op'.value]_vars

C4_Witness ==
    /\ op.name = "set" /\ nsets = 2 /\ depthOf >= 2
    /\ \/ op.res = "InvalidIndex" /\ op.index = num_leaves(nodes)
       \/ op.res = "Ok" /\ op.index = num_leaves(nodes) - 1

\* C5: new fails with MaxDepthExceeded exactly when depth > 30, and returns
\* a tree for every depth from 0 to 30 with a valid leaf.
C5_NewDepthCheck ==
    op.name = "new" =>
        /\ (op.res = "MaxDepthExceeded") <=> (op.depth > DepthLimit)
        /\ (op.depth <= DepthLimit /\ Decodes32(op.value)) => op.res = "Ok"

\* C6: new with depth in 1..30 and a leaf that does not decode to 32 bytes
\* returns a typed error and no tree: InvalidBytes for well-formed
\* hexadecimal of another length, EncodeError for malformed hexadecimal of
\* the right length, a typed error for a string shorter than the prefix.
C6_NewRejectsBadLeaf ==
    (op.name = "new" /\ op.depth \in 1..DepthLimit /\ ~Decodes32(op.value)) =>
        /\ op.res \in {"InvalidBytes", "EncodeError"}
        /\ phase = "none"
        /\ (CanSlice(op.value) /\ HexDecode(Slice(op.value)).ok)
               => op.res = "InvalidBytes"
        /\ (CanSlice(op.value) /\ StrLen(Slice(op.value)) = HexLen)
               => op.res = "EncodeError"

\* C7: proof with leaf_index >= num_leaves() returns a typed error.
C7_ProofValidatesIndex ==
    (op.name = "proof" /\ op.index >= num_leaves(nodes)) => op.res = "InvalidIndex"

\* C8: a tree built with depth d has 2 * 2^(d-1) - 1 nodes and 2^(d-1)
\* leaves, and keeps both through every set call, successful or failing.
C8_Shape ==
    /\ (op.name = "new" /\ op.res = "Ok") => (depthOf = op.depth /\ depthOf >= 1)
    /\ depthOf >= 1 =>
           /\ NodesLen(nodes) = 2 * LeavesOf(depthOf) - 1
           /\ num_leaves(nodes) = LeavesOf(depthOf)

C8_Witness ==
    depthOf >= 3 /\ nsets = 2 /\ ~setsOk /\ op.name = "set" /\ op.res = "EncodeError"

\* C9: depth_offset_to_index and index_to_depth_offset are inverses of each
\* other, and depth_offset_to_index accepts exactly the offsets below 2^depth.
C9_IndexInverse ==
    /\ ix.name = "d2i" => (ix.ok <=> ix.offset < 2 ^ ix.depth)
    /\ (ix.name = "d2i" /\ ix.ok)
           => index_to_depth_offset(ix.index) = <<ix.depth, ix.offset>>
    /\ ix.name = "i2d"
           => depth_offset_to_index(ix.depth, ix.offset) = [ok |-> TRUE, v |-> ix.index]

C9_Witness ==
    ix.name = "d2i" /\ ix.ok /\ ix.depth = 3 /\ ix.offset = 7 /\ ix.index = 14

\* the k-th node on the path from leaf j of a tree of depth d up to the root
PathNode(d, j, k) == 2 ^ (d - k) - 1 + (j \div 2 ^ (k - 1))

\* C10: proof of a valid leaf returns depth - 1 steps from the leaf upwards;
\* step k is Left iff the k-th path node has an odd index, its sibling is the
\* value of the other child of the same parent; the tree is not changed.
C10_ProofShape ==
    [][(op'.name = "proof" /\ op'.index < LeavesOf(depthOf)) =>
          /\ nodes' = nodes
          /\ op'.res = "Ok"
          /\ Len(op'.steps) = depthOf - 1
          /\ \A k \in 1..Len(op'.steps) :
                 LET node == PathNode(depthOf, op'.index, k) IN
                 /\ op'.steps[k].direction = (IF node % 2 = 1 THEN "Left" ELSE "Right")
                 /\ op'.steps[k].sibling =
                        nodes[IF node % 2 = 1 THEN node + 1 ELSE node - 1]]_vars

C10_Witness ==
    /\ op.name = "proof" /\ op.res = "Ok" /\ depthOf >= 3 /\ nsets >= 1
    /\ Len(op.steps) = depthOf - 1
    /\ op.steps[1].direction = "Right" /\ op.steps[2].direction = "Left"
    /\ op.steps[1].sibling \in SetValues

====
